---- MODULE Spec2Model ----
(***************************************************************************)
(* Terra ingestion backend: the capture-date resolver and metadata         *)
(* extractor (src-tauri/src/lib.rs), the Tauri commands built on them, and *)
(* the SQLite metadata store (src-tauri/src/db.rs).                        *)
(*                                                                         *)
(* Encodings.  Option<T> is a sequence of length <= 1 (None == <<>>).      *)
(* A file name is [stem, ext]: the stem is a sequence of tokens and ext    *)
(* is Option<String>, so that Path::file_stem / Path::extension are field  *)
(* reads and format!("{}_{}.{}", stem, counter, ext) appends a counter     *)
(* token to the stem.  Timestamps are Unix seconds.                        *)
(***************************************************************************)
EXTENDS Integers, Sequences, FiniteSets, TLC

VARIABLES foreign_keys, photos, albums, album_photos, album_seq, fs, now, last

vars == <<foreign_keys, photos, albums, album_photos, album_seq, fs, now, last>>

None == <<>>
Some(x) == <<x>>

(***************************************************************************)
(* Bounds of the model.                                                    *)
(***************************************************************************)
\* the clock takes the values Epoch0 .. Epoch0 + MaxTime
MaxTime == 1
\* number of albums ever created
MaxAlbums == 1
\* longest path list passed to a command
MaxBatch == 2
\* largest number of files in the managed library
MaxLibFiles == 2

\* first instant of the modelled clock (2023-11-14T22:13:20Z)
Epoch0 == 1700000000

(***************************************************************************)
(* chrono: calendar arithmetic behind NaiveDateTime::parse_from_str,       *)
(* and_utc().timestamp() and DateTime::from_timestamp().format().          *)
(***************************************************************************)
IsLeap(y) == (y % 4 = 0 /\ y % 100 # 0) \/ y % 400 = 0

DaysInMonth(y, m) ==
    IF m = 2 THEN (IF IsLeap(y) THEN 29 ELSE 28)
    ELSE IF m \in {4, 6, 9, 11} THEN 30 ELSE 31

DaysFromCivil(y, m, d) ==
    LET yy  == IF m <= 2 THEN y - 1 ELSE y
        era == yy \div 400
        yoe == yy - era * 400
        mp  == IF m > 2 THEN m - 3 ELSE m + 9
        doy == (153 * mp + 2) \div 5 + d - 1
        doe == yoe * 365 + yoe \div 4 - yoe \div 100 + doy
    IN  era * 146097 + doe - 719468

\* NaiveDateTime::parse_from_str(.., "%Y-%m-%d %H:%M:%S") then
\* .and_utc().timestamp(): None unless the six fields name a real instant
ParseNaiveDateTime(y, m, d, h, mi, s) ==
    IF /\ m >= 1 /\ m <= 12
       /\ d >= 1 /\ d <= DaysInMonth(y, m)
       /\ h >= 0 /\ h <= 23 /\ mi >= 0 /\ mi <= 59 /\ s >= 0 /\ s <= 59
    THEN Some(DaysFromCivil(y, m, d) * 86400 + h * 3600 + mi * 60 + s)
    ELSE None

\* DateTime::from_timestamp(ts, 0) followed by format("%Y") / format("%m")
CivilFromTimestamp(ts) ==
    LET z   == ts \div 86400 + 719468
        era == z \div 146097
        doe == z - era * 146097
        yoe == (doe - doe \div 1460 + doe \div 36524 - doe \div 146096) \div 365
        doy == doe - (365 * yoe + yoe \div 4 - yoe \div 100)
        mp  == (5 * doy + 2) \div 153
        d   == doy - (153 * mp + 2) \div 5 + 1
        m   == IF mp < 10 THEN mp + 3 ELSE mp - 9
        y   == yoe + era * 400 + (IF m <= 2 THEN 1 ELSE 0)
    IN  [year |-> y, month |-> m, day |-> d]

Pad2(n) == IF n < 10 THEN "0" \o ToString(n) ELSE ToString(n)

(***************************************************************************)
(* File names.                                                             *)
(***************************************************************************)
\* stem tokens: literal text, a "YYYY-MM-DD" date, a "_HHMMSS" digit run,
\* and the "_N" counter that upload_photos appends
Txt(s) == [t |-> "text", s |-> s, a |-> 0, b |-> 0, c |-> 0]
DateTok(y, m, d) == [t |-> "date", s |-> "", a |-> y, b |-> m, c |-> d]
TimeTok(h, mi, s) == [t |-> "time", s |-> "", a |-> h, b |-> mi, c |-> s]
Num(n) == [t |-> "n", s |-> "", a |-> n, b |-> 0, c |-> 0]

FileName(stem, ext) == [stem |-> stem, ext |-> ext]

\* str::to_lowercase over the extensions that occur in the model
to_lowercase(s) ==
    CASE s = "JPG" -> "jpg"
      [] s = "Png" -> "png"
      [] s = "MOV" -> "mov"
      [] s = "TXT" -> "txt"
      [] OTHER -> s

\* index of the first token of kind k in the stem at or after position i
RECURSIVE FirstTok(_, _, _)
FirstTok(stem, k, i) ==
    IF i > Len(stem) THEN 0
    ELSE IF stem[i].t = k THEN i
    ELSE FirstTok(stem, k, i + 1)

(***************************************************************************)
(* Capture-date resolver.                                                  *)
(*                                                                         *)
(* An EXIF ASCII value is the sequence of its space-separated words, each  *)
(* word the sequence of its colon-separated numeric fields; NUL or blank   *)
(* padding at the end shows as trailing empty words.                       *)
(***************************************************************************)
RECURSIVE TrimEnd(_)
TrimEnd(words) ==
    IF Len(words) > 0 /\ words[Len(words)] = <<>>
    THEN TrimEnd(SubSeq(words, 1, Len(words) - 1))
    ELSE words

parse_exif_datetime(datetime_str) ==
    LET parts == TrimEnd(datetime_str)
    IN  IF Len(parts) # 2 THEN None
        ELSE IF Len(parts[1]) # 3 \/ Len(parts[2]) # 3 THEN None
        ELSE ParseNaiveDateTime(parts[1][1], parts[1][2], parts[1][3],
                                parts[2][1], parts[2][2], parts[2][3])

parse_filename_date(filename) ==
    LET di == FirstTok(filename.stem, "date", 1)
        ti == FirstTok(filename.stem, "time", 1)
    IN  IF di = 0 THEN None
        ELSE LET year  == filename.stem[di].a
                 month == filename.stem[di].b
                 day   == filename.stem[di].c
                 hms   == IF ti # 0
                          THEN <<filename.stem[ti].a, filename.stem[ti].b,
                                 filename.stem[ti].c>>
                          ELSE <<0, 0, 0>>
             IN  IF year < 1970 \/ year > 2100 \/ month < 1 \/ month > 12
                    \/ day < 1 \/ day > 31
                 THEN None
                 ELSE ParseNaiveDateTime(year, month, day,
                                         hms[1], hms[2], hms[3])

RECURSIVE ExifScan(_, _)
ExifScan(entries, i) ==
    IF i > Len(entries) THEN None
    ELSE LET entry == entries[i]
             ts == parse_exif_datetime(TrimEnd(entry.value))
         IN  IF /\ entry.tag \in {"DateTimeOriginal", "DateTime"}
                /\ entry.ascii
                /\ ts # None
             THEN ts
             ELSE ExifScan(entries, i + 1)

\* file.exif is None when rexif::parse_file fails
extract_exif_date(file) ==
    IF file.exif = None THEN None ELSE ExifScan(file.exif[1], 1)

\* file.mtime is [secs, nanos] relative to UNIX_EPOCH; duration_since
\* fails for an instant before the epoch, as_secs drops the fraction
get_file_modified_time(file) ==
    IF file.mtime.secs < 0 THEN None ELSE Some(file.mtime.secs)

is_video(path) ==
    IF path.name.ext = None THEN FALSE
    ELSE to_lowercase(path.name.ext[1]) \in {"mp4", "mov", "avi", "webm", "mkv"}

or_else(opt, next) == IF opt # None THEN opt ELSE next

\* the fallback chain of process_image
resolve_date(path, file, clock) ==
    LET chain == or_else(or_else(extract_exif_date(file),
                                 parse_filename_date(path.name)),
                         get_file_modified_time(file))
    IN  IF chain # None THEN chain[1] ELSE clock

\* file.img is None when image::open fails, else Some(<<width, height>>);
\* the model has no symbolic links, so canonicalize() returns the path
process_image(path, file, clock) ==
    LET dims == IF is_video(path) \/ file.img = None
                THEN <<0, 0>> ELSE file.img[1]
    IN  [path |-> path,
         name |-> path.name,
         date_taken |-> resolve_date(path, file, clock),
         width |-> dims[1],
         height |-> dims[2],
         is_favorite |-> FALSE]

(***************************************************************************)
(* Metadata store (db.rs).  A connection is the database it is opened on:  *)
(* [fk, photos, albums, album_photos, seq].  Tables are sets of rows; seq  *)
(* is the AUTOINCREMENT counter of albums.  fk is the foreign_keys setting *)
(* of the connection: init_database never issues PRAGMA foreign_keys, so   *)
(* it is whatever default the linked SQLite was compiled with.             *)
(* Each operator gives the database after a successful statement.          *)
(***************************************************************************)
PhotoRow(photo, source_type, clock) ==
    [path |-> photo.path,
     name |-> photo.name,
     date_taken |-> photo.date_taken,
     width |-> photo.width,
     height |-> photo.height,
     source_type |-> source_type,
     created_at |-> clock,
     is_favorite |-> IF photo.is_favorite THEN 1 ELSE 0]

\* insert_photo as a plain INSERT that leaves the conflicting row in place
insert_photo_keeps_old(conn, photo, source_type, clock) ==
    [conn EXCEPT
       !.photos = @ \cup {PhotoRow(photo, source_type, clock)}]

\* insert_photo as an upsert that carries is_favorite over from the old row
insert_photo_keeps_favorite(conn, photo, source_type, clock) ==
    LET conflict == {r \in conn.photos : r.path = photo.path}
        row == PhotoRow(photo, source_type, clock)
    IN  [conn EXCEPT
           !.photos = (@ \ conflict)
               \cup {[row EXCEPT !.is_favorite =
                         IF \E r \in conflict : r.is_favorite # 0
                         THEN 1 ELSE @]},
           !.album_photos =
               IF conn.fk /\ conflict # {}
               THEN {m \in @ : m.photo_path # photo.path}
               ELSE @]

\* INSERT OR REPLACE: the UNIQUE(path) conflict deletes the old row (with
\* foreign keys enforced the delete cascades to album_photos), then inserts
insert_photo(conn, photo, source_type, clock) ==
    LET conflict == {r \in conn.photos : r.path = photo.path}
    IN  [conn EXCEPT
           !.photos = (@ \ conflict) \cup {PhotoRow(photo, source_type, clock)},
           !.album_photos =
               IF conn.fk /\ conflict # {}
               THEN {m \in @ : m.photo_path # photo.path}
               ELSE @]

\* a row as get_all_photos / get_album_photos map it to PhotoMetadata
RowToPhoto(r) ==
    [path |-> r.path,
     name |-> r.name,
     date_taken |-> r.date_taken,
     width |-> r.width,
     height |-> r.height,
     is_favorite |-> r.is_favorite # 0]

\* the query with ORDER BY date_taken ASC
RECURSIVE OrderByDateTakenAsc(_)
OrderByDateTakenAsc(S) ==
    IF S = {} THEN {<<>>}
    ELSE LET first == {r \in S : \A q \in S : q.date_taken >= r.date_taken}
         IN  UNION {{<<RowToPhoto(r)>> \o rest :
                        rest \in OrderByDateTakenAsc(S \ {r})} : r \in first}

\* ORDER BY date_taken DESC leaves the order of equal keys open: the set
\* of sequences a query over the rows S may return
RECURSIVE OrderByDateTakenDesc(_)
OrderByDateTakenDesc(S) ==
    IF S = {} THEN {<<>>}
    ELSE LET first == {r \in S : \A q \in S : q.date_taken <= r.date_taken}
         IN  UNION {{<<RowToPhoto(r)>> \o rest :
                        rest \in OrderByDateTakenDesc(S \ {r})} : r \in first}

get_all_photos(conn) == OrderByDateTakenDesc(conn.photos)

\* strftime('%Y', date_taken, 'unixepoch') .. GROUP BY year ORDER BY year
\* DESC over rows: the years are four-digit strings in the model, whose
\* text order is their numeric order
RECURSIVE GroupByYearDesc(_)
GroupByYearDesc(rows) ==
    IF rows = {} THEN <<>>
    ELSE LET YearOf(r) == CivilFromTimestamp(r.date_taken).year
             latest == CHOOSE y \in {YearOf(r) : r \in rows} :
                           \A r \in rows : YearOf(r) <= y
             group == {r \in rows : YearOf(r) = latest}
         IN  <<<<ToString(latest), Cardinality(group)>>>>
             \o GroupByYearDesc(rows \ group)

\* the query with ORDER BY year ASC
get_photo_count_by_year_ascending(conn) ==
    LET desc == GroupByYearDesc(conn.photos)
    IN  [i \in 1..Len(desc) |-> desc[Len(desc) + 1 - i]]

get_photo_count_by_year(conn) == GroupByYearDesc(conn.photos)

photo_exists(conn, path) ==
    Cardinality({r \in conn.photos : r.path = path}) > 0

delete_photo(conn, path) ==
    [conn EXCEPT
       !.photos = {r \in @ : r.path # path},
       !.album_photos =
           IF conn.fk THEN {m \in @ : m.photo_path # path} ELSE @]

\* set_photo_favorite done by replacing the row, as an upsert would
set_photo_favorite_by_replace(conn, path, is_favorite) ==
    [conn EXCEPT
       !.photos = {IF r.path = path
                   THEN [r EXCEPT !.is_favorite = IF is_favorite THEN 1 ELSE 0,
                                  !.created_at = 0]
                   ELSE r : r \in @},
       !.album_photos = {m \in @ : m.photo_path # path}]

\* set_photo_favorite with the WHERE clause left out
set_photo_favorite_everywhere(conn, path, is_favorite) ==
    [conn EXCEPT
       !.photos = {[r EXCEPT !.is_favorite = IF is_favorite THEN 1 ELSE 0] :
                      r \in @}]

set_photo_favorite(conn, path, is_favorite) ==
    [conn EXCEPT
       !.photos = {IF r.path = path
                   THEN [r EXCEPT !.is_favorite = IF is_favorite THEN 1 ELSE 0]
                   ELSE r : r \in @}]

\* returns <<database, last_insert_rowid>>
create_album(conn, name, clock) ==
    LET id == conn.seq + 1
    IN  <<[conn EXCEPT
             !.albums = @ \cup {[id |-> id, name |-> name,
                                 cover_photo_path |-> None,
                                 created_at |-> clock]},
             !.seq = id],
          id>>

delete_album(conn, id) ==
    [conn EXCEPT
       !.albums = {a \in @ : a.id # id},
       !.album_photos =
           IF conn.fk THEN {m \in @ : m.album_id # id} ELSE @]

\* INSERT OR IGNORE skips a primary-key conflict but not a foreign-key
\* violation, which fails the statement when foreign keys are enforced
add_photo_to_album_fails(conn, album_id, photo_path) ==
    /\ conn.fk
    /\ \/ \A a \in conn.albums : a.id # album_id
       \/ \A r \in conn.photos : r.path # photo_path

\* add_photo_to_album as INSERT OR REPLACE: a duplicate add restamps the row
add_photo_to_album_replaces(conn, album_id, photo_path, clock) ==
    [conn EXCEPT
       !.album_photos =
           {x \in @ : ~(x.album_id = album_id /\ x.photo_path = photo_path)}
           \cup {[album_id |-> album_id, photo_path |-> photo_path,
                   added_at |-> clock]}]

add_photo_to_album(conn, album_id, photo_path, clock) ==
    IF \E m \in conn.album_photos :
           m.album_id = album_id /\ m.photo_path = photo_path
    THEN conn
    ELSE [conn EXCEPT
            !.album_photos = @ \cup {[album_id |-> album_id,
                                      photo_path |-> photo_path,
                                      added_at |-> clock]}]

remove_photo_from_album(conn, album_id, photo_path) ==
    [conn EXCEPT
       !.album_photos =
           {m \in @ : ~(m.album_id = album_id /\ m.photo_path = photo_path)}]

set_album_cover(conn, album_id, photo_path) ==
    [conn EXCEPT
       !.albums = {IF a.id = album_id
                   THEN [a EXCEPT !.cover_photo_path = Some(photo_path)]
                   ELSE a : a \in @}]

\* LEFT JOIN album_photos ... GROUP BY a.id: one Album per albums row
AlbumOf(conn, a) ==
    [id |-> a.id, name |-> a.name, cover_photo_path |-> a.cover_photo_path,
     count |-> Cardinality({m \in conn.album_photos : m.album_id = a.id})]

\* the set of Album values returned (ORDER BY a.created_at DESC)
get_albums(conn) == {AlbumOf(conn, a) : a \in conn.albums}

\* JOIN photos ON p.path = ap.photo_path WHERE ap.album_id = ?1
get_album_photos(conn, album_id) ==
    OrderByDateTakenDesc(
        {r \in conn.photos :
            \E m \in conn.album_photos :
                m.album_id = album_id /\ m.photo_path = r.path})

(***************************************************************************)
(* Filesystem.  fs maps the path of every existing regular file to         *)
(* [exif, img, mtime]; a path is [dir, name] with dir the sequence of      *)
(* directory components.                                                   *)
(***************************************************************************)
PathOf(dir, name) == [dir |-> dir, name |-> name]

exists(files, path) == path \in DOMAIN files

\* db::get_library_path(): <Pictures>/Terra
LibraryRoot == <<"Pictures", "Terra">>

Under(root, path) ==
    /\ Len(root) <= Len(path.dir)
    /\ SubSeq(path.dir, 1, Len(root)) = root

ExifEntry(tag, ascii, value) == [tag |-> tag, ascii |-> ascii, value |-> value]

\* the files the user has on disk before the first command
SrcA1 == PathOf(<<"in">>, FileName(<<Txt("a")>>, Some("jpg")))
SrcA2 == PathOf(<<"in", "sub">>, FileName(<<Txt("a")>>, Some("jpg")))
SrcRaw == PathOf(<<"in">>, FileName(<<Txt("raw")>>, None))
SrcGone == PathOf(<<"in">>, FileName(<<Txt("gone")>>, Some("jpg")))

InitialFiles ==
    (SrcA1 :> [exif |-> Some(<<ExifEntry("DateTimeOriginal", TRUE,
                                          <<<<2021, 3, 5>>, <<10, 0, 0>>>>)>>),
               img |-> Some(<<4, 3>>),
               mtime |-> [secs |-> 1650000000, nanos |-> 0]])
    @@ (SrcA2 :> [exif |-> None,
                  img |-> Some(<<8, 6>>),
                  mtime |-> [secs |-> 1615000000, nanos |-> 700000000]])
    @@ (SrcRaw :> [exif |-> None,
                   img |-> None,
                   mtime |-> [secs |-> 1615500000, nanos |-> 0]])

(***************************************************************************)
(* State.                                                                  *)
(***************************************************************************)
Conn ==
    [fk |-> foreign_keys, photos |-> photos, albums |-> albums,
     album_photos |-> album_photos, seq |-> album_seq]

Commit(conn) ==
    /\ photos' = conn.photos
    /\ albums' = conn.albums
    /\ album_photos' = conn.album_photos
    /\ album_seq' = conn.seq
    /\ UNCHANGED foreign_keys

\* the response of the command that has just run, until the host takes
\* it: the command's name and arguments, whether it returned Ok, the value
\* returned (the Vec of Ok, the message of Err), and a note for the record
\* of what the command found and did
Call(op, args, ok, val, note) ==
    [op |-> op, args |-> args, ok |-> ok, val |-> val, note |-> note]

\* no response pending: the host may invoke a command
Idle == last.op = "idle"

Init ==
    /\ foreign_keys \in BOOLEAN
    /\ photos = {}
    /\ albums = {}
    /\ album_photos = {}
    /\ album_seq = 0
    /\ fs = InitialFiles
    /\ now = Epoch0
    /\ last = Call("idle", <<>>, TRUE, <<>>, <<>>)

\* init_database() fails: Connection::open or a CREATE TABLE returns Err
\* and the command maps it to Err("Database error: ..")
DatabaseError(op, args) ==
    /\ last' = Call(op, args, FALSE, "Database error", <<>>)
    /\ UNCHANGED <<foreign_keys, photos, albums, album_photos, album_seq,
                   fs, now>>

\* sequences of length 1 .. n over S
RECURSIVE SeqsUpTo(_, _)
SeqsUpTo(S, n) ==
    IF n = 0 THEN {}
    ELSE LET shorter == SeqsUpTo(S, n - 1)
         IN  {<<x>> : x \in S} \cup shorter
             \cup {Append(q, x) : q \in shorter, x \in S}

\* every ordering of the set S
RECURSIVE Orderings(_)
Orderings(S) ==
    IF S = {} THEN {<<>>}
    ELSE UNION {{<<x>> \o rest : rest \in Orderings(S \ {x})} : x \in S}

(***************************************************************************)
(* Commands (lib.rs).  Each action is one invocation of a Tauri command;   *)
(* the failures of the environment (a statement that returns Err, a copy   *)
(* or a removal the filesystem refuses) are inputs of the action.  The     *)
(* clock is read once per invocation.                                      *)
(***************************************************************************)
MediaExtensions ==
    {"jpg", "jpeg", "png", "heic", "webp", "gif", "bmp",
     "mp4", "mov", "avi", "webm", "mkv"}

\* the filter comparing the extension as it is spelled
IsMediaEntry_case_sensitive(files, dir_path, path) ==
    /\ exists(files, path)
    /\ Under(dir_path, path)
    /\ LET ext == IF path.name.ext = None THEN "" ELSE path.name.ext[1]
       IN  ext \in MediaExtensions

\* the filter of the WalkDir iterator in scan_directory
IsMediaEntry(files, dir_path, path) ==
    /\ exists(files, path)
    /\ Under(dir_path, path)
    /\ LET ext == IF path.name.ext = None THEN ""
                  ELSE to_lowercase(path.name.ext[1])
       IN  ext \in MediaExtensions

\* the loop of scan_directory going one record past the failing insert
InsertPastFailure(conn, list, n, source_type, clock) ==
    LET upto == IF n < Len(list) THEN n + 1 ELSE n
        F[k \in 0..Len(list)] ==
            IF k = 0 THEN conn
            ELSE insert_photo(F[k - 1], list[k], source_type, clock)
    IN  F[upto]

\* the database after the first n records of list have been upserted
RECURSIVE InsertFirst(_, _, _, _, _)
InsertFirst(conn, list, n, source_type, clock) ==
    IF n = 0 THEN conn
    ELSE insert_photo(InsertFirst(conn, list, n - 1, source_type, clock),
                      list[n], source_type, clock)

\* scan_directory returning Ok(photos) although an insert failed
scan_directory_swallows_error(dir_path, save_to_db, entries, db_opens, fail_at) ==
    LET found == [i \in 1..Len(entries) |->
                     process_image(entries[i], fs[entries[i]], now)]
        args == <<dir_path, save_to_db>>
        saved == IF ~save_to_db THEN 0
                 ELSE IF fail_at > 0 THEN fail_at - 1 ELSE Len(found)
    IN  IF save_to_db /\ ~db_opens
        THEN DatabaseError("scan_directory", args)
        ELSE /\ Commit(InsertFirst(Conn, found, saved, "scan", now))
             /\ last' = Call("scan_directory", args, TRUE, found,
                             [photos |-> found, saved |-> saved,
                              before |-> photos, members |-> album_photos])
             /\ UNCHANGED <<fs, now>>

\* entries: the candidates in the order WalkDir yields them;
\* fail_at: index of the record whose insert_photo returns Err (0: none)
scan_directory(dir_path, save_to_db, entries, db_opens, fail_at) ==
    LET found == [i \in 1..Len(entries) |->
                     process_image(entries[i], fs[entries[i]], now)]
        args == <<dir_path, save_to_db>>
    IN  IF save_to_db /\ ~db_opens
        THEN DatabaseError("scan_directory", args)
        ELSE IF save_to_db /\ fail_at > 0
        THEN /\ Commit(InsertFirst(Conn, found, fail_at - 1, "scan", now))
             /\ last' = Call("scan_directory", args, FALSE,
                             "Failed to insert photo",
                             [photos |-> found, saved |-> fail_at - 1,
                              before |-> photos, members |-> album_photos])
             /\ UNCHANGED <<fs, now>>
        ELSE /\ Commit(IF save_to_db
                       THEN InsertFirst(Conn, found, Len(found), "scan", now)
                       ELSE Conn)
             /\ last' = Call("scan_directory", args, TRUE, found,
                             [photos |-> found,
                              saved |-> IF save_to_db THEN Len(found) ELSE 0,
                              before |-> photos, members |-> album_photos])
             /\ UNCHANGED <<fs, now>>

ScanRoots == {<<"in">>, <<"in", "sub">>, LibraryRoot}

ScanDirectory ==
    /\ Idle
    /\ \E dir_path \in ScanRoots, save_to_db \in BOOLEAN, db_opens \in BOOLEAN :
         \E entries \in Orderings({p \in DOMAIN fs : IsMediaEntry(fs, dir_path, p)}) :
           \E fail_at \in 0..Len(entries) :
             /\ (~save_to_db => db_opens /\ fail_at = 0)
             /\ (~db_opens => fail_at = 0)
             /\ scan_directory(dir_path, save_to_db, entries, db_opens, fail_at)

\* upload_photos copying to dest_dir/file_name without looking for a
\* free name
FinalDestPath_first_choice(files, dest_dir, source_name, final_dest_path, counter) ==
    Some(final_dest_path)

\* the `while final_dest_path.exists()` loop of upload_photos: Some(path)
\* when it leaves the loop, None when `source_path.extension()?` returns
RECURSIVE FinalDestPath(_, _, _, _, _)
FinalDestPath(files, dest_dir, source_name, final_dest_path, counter) ==
    IF ~exists(files, final_dest_path) THEN Some(final_dest_path)
    ELSE IF source_name.ext = None THEN None
    ELSE FinalDestPath(files, dest_dir, source_name,
                       PathOf(dest_dir,
                              FileName(Append(source_name.stem, Num(counter)),
                                       source_name.ext)),
                       counter + 1)

LibraryFiles(files) == {p \in DOMAIN files : Under(LibraryRoot, p)}

UploadFaults == {"none", "create_dir", "copy", "insert"}

\* UploadOne returning the record although insert_photo failed
UploadOne_reports_unsaved(st, file_path, fault, clock) ==
    IF ~exists(st.fs, file_path) THEN st
    ELSE
      LET photo == process_image(file_path, st.fs[file_path], clock)
          date == CivilFromTimestamp(photo.date_taken)
          dest_dir == LibraryRoot \o <<ToString(date.year), Pad2(date.month)>>
          final == FinalDestPath(st.fs, dest_dir, file_path.name,
                                 PathOf(dest_dir, file_path.name), 1)
      IN  IF fault = "create_dir" \/ final = None \/ fault = "copy" THEN st
          ELSE
            LET copied == (final[1] :> [st.fs[file_path] EXCEPT
                                !.mtime = [secs |-> clock, nanos |-> 0]])
                          @@ st.fs
                moved == [photo EXCEPT !.path = final[1],
                                       !.name = final[1].name]
            IN  [fs |-> copied,
                 conn |-> IF fault = "insert" THEN st.conn
                          ELSE insert_photo(st.conn, moved, "upload", clock),
                 out |-> Append(st.out, moved)]

\* the closure of filter_map for one file_path; st is [fs, conn, out]
UploadOne(st, file_path, fault, clock) ==
    IF ~exists(st.fs, file_path) THEN st
    ELSE
      LET photo == process_image(file_path, st.fs[file_path], clock)
          date == CivilFromTimestamp(photo.date_taken)
          dest_dir == LibraryRoot \o <<ToString(date.year), Pad2(date.month)>>
          final == FinalDestPath(st.fs, dest_dir, file_path.name,
                                 PathOf(dest_dir, file_path.name), 1)
      IN  IF fault = "create_dir" \/ final = None \/ fault = "copy" THEN st
          ELSE
            LET copied == (final[1] :> [st.fs[file_path] EXCEPT
                                !.mtime = [secs |-> clock, nanos |-> 0]])
                          @@ st.fs
                moved == [photo EXCEPT !.path = final[1],
                                       !.name = final[1].name]
            IN  IF fault = "insert" THEN [st EXCEPT !.fs = copied]
                ELSE [fs |-> copied,
                      conn |-> insert_photo(st.conn, moved, "upload", clock),
                      out |-> Append(st.out, moved)]

RECURSIVE UploadFirst(_, _, _, _, _)
UploadFirst(st, file_paths, faults, n, clock) ==
    IF n = 0 THEN st
    ELSE UploadOne(UploadFirst(st, file_paths, faults, n - 1, clock),
                   file_paths[n], faults[n], clock)

upload_photos(file_paths, faults, db_opens) ==
    IF ~db_opens THEN DatabaseError("upload_photos", file_paths)
    ELSE LET st == UploadFirst([fs |-> fs, conn |-> Conn, out |-> <<>>],
                               file_paths, faults, Len(file_paths), now)
         IN  /\ Commit(st.conn)
             /\ fs' = st.fs
             /\ last' = Call("upload_photos", file_paths, TRUE, st.out,
                             [faults |-> faults, before |-> photos,
                              before_files |-> DOMAIN fs])
             /\ UNCHANGED now

UploadPhotos ==
    /\ Idle
    /\ \E file_paths \in SeqsUpTo((DOMAIN fs \ LibraryFiles(fs)) \cup {SrcGone}, MaxBatch) :
         \E faults \in [1..Len(file_paths) -> UploadFaults], db_opens \in BOOLEAN :
           /\ Cardinality(LibraryFiles(fs)) + Len(file_paths) <= MaxLibFiles
           /\ (~db_opens => \A i \in 1..Len(file_paths) : faults[i] = "none")
           /\ upload_photos(file_paths, faults, db_opens)

\* upload_photos handed any file on disk, files of the managed library
\* among them
UploadFromAnywhere ==
    /\ Idle
    /\ \E file_paths \in SeqsUpTo(DOMAIN fs \cup {SrcGone}, MaxBatch) :
         \E faults \in [1..Len(file_paths) -> UploadFaults], db_opens \in BOOLEAN :
           /\ Cardinality(LibraryFiles(fs)) + Len(file_paths) <= MaxLibFiles
           /\ (~db_opens => \A i \in 1..Len(file_paths) : faults[i] = "none")
           /\ upload_photos(file_paths, faults, db_opens)

\* the paths a caller may name: files on disk, paths the store mentions,
\* and one path that never existed
KnownPaths ==
    DOMAIN fs \cup {r.path : r \in photos}
    \cup {m.photo_path : m \in album_photos} \cup {SrcGone}

AlbumIds == 1..MaxAlbums

GetAllPhotos ==
    /\ Idle
    /\ \E db_opens \in BOOLEAN :
         IF ~db_opens THEN DatabaseError("get_all_photos", <<>>)
         ELSE \E list \in get_all_photos(Conn) :
                /\ last' = Call("get_all_photos", <<>>, TRUE, list, <<>>)
                /\ UNCHANGED <<foreign_keys, photos, albums, album_photos,
                               album_seq, fs, now>>

toggle_favorite(path, is_favorite, db_opens) ==
    IF ~db_opens THEN DatabaseError("toggle_favorite", <<path, is_favorite>>)
    ELSE /\ Commit(set_photo_favorite(Conn, path, is_favorite))
         /\ last' = Call("toggle_favorite", <<path, is_favorite>>, TRUE,
                         <<>>, <<>>)
         /\ UNCHANGED <<fs, now>>

ToggleFavorite ==
    /\ Idle
    /\ \E path \in KnownPaths, is_favorite \in BOOLEAN, db_opens \in BOOLEAN :
         toggle_favorite(path, is_favorite, db_opens)

\* DeleteOne going on to the next path when remove_file fails
DeleteOne_ignores_file_error(st, path_str, fault) ==
    IF st.failed # "" THEN st
    ELSE IF fault = "db"
    THEN [st EXCEPT !.failed = "Failed to delete from DB"]
    ELSE LET conn == delete_photo(st.conn, path_str)
         IN  IF ~exists(st.fs, path_str) \/ fault = "fs"
             THEN [st EXCEPT !.conn = conn]
             ELSE [st EXCEPT !.conn = conn,
                             !.fs = [p \in DOMAIN st.fs \ {path_str} |->
                                        st.fs[p]]]

\* the body of the loop of delete_photos for one path; st is
\* [fs, conn, failed], fault names the call that returns Err for this path
DeleteOne(st, path_str, fault) ==
    IF st.failed # "" THEN st
    ELSE IF fault = "db"
    THEN [st EXCEPT !.failed = "Failed to delete from DB"]
    ELSE LET conn == delete_photo(st.conn, path_str)
         IN  IF ~exists(st.fs, path_str) THEN [st EXCEPT !.conn = conn]
             ELSE IF fault = "fs"
             THEN [st EXCEPT !.conn = conn,
                             !.failed = "Failed to delete file"]
             ELSE [st EXCEPT !.conn = conn,
                             !.fs = [p \in DOMAIN st.fs \ {path_str} |->
                                        st.fs[p]]]

RECURSIVE DeleteFirst(_, _, _, _, _)
DeleteFirst(st, paths, fail_at, fault, n) ==
    IF n = 0 THEN st
    ELSE DeleteOne(DeleteFirst(st, paths, fail_at, fault, n - 1), paths[n],
                   IF fail_at = n THEN fault ELSE "none")

delete_photos(paths, fail_at, fault, db_opens) ==
    IF ~db_opens THEN DatabaseError("delete_photos", paths)
    ELSE LET st == DeleteFirst([fs |-> fs, conn |-> Conn, failed |-> ""],
                               paths, fail_at, fault, Len(paths))
         IN  /\ Commit(st.conn)
             /\ fs' = st.fs
             /\ last' = Call("delete_photos", paths, st.failed = "",
                             st.failed,
                             [before |-> photos, before_files |-> DOMAIN fs])
             /\ UNCHANGED now

DeletePhotos ==
    /\ Idle
    /\ \E paths \in SeqsUpTo(KnownPaths, MaxBatch), db_opens \in BOOLEAN :
         \E fail_at \in 0..Len(paths), fault \in {"none", "db", "fs"} :
           /\ (fail_at = 0) = (fault = "none")
           /\ (~db_opens => fail_at = 0)
           /\ delete_photos(paths, fail_at, fault, db_opens)

CreateAlbum ==
    /\ Idle
    /\ \E name \in {"trip"}, db_opens \in BOOLEAN :
         /\ album_seq < MaxAlbums
         /\ IF ~db_opens THEN DatabaseError("create_album", name)
            ELSE LET res == create_album(Conn, name, now)
                 IN  /\ Commit(res[1])
                     /\ last' = Call("create_album", name, TRUE, res[2], <<>>)
                     /\ UNCHANGED <<fs, now>>

DeleteAlbum ==
    /\ Idle
    /\ \E id \in AlbumIds, db_opens \in BOOLEAN :
         IF ~db_opens THEN DatabaseError("delete_album", id)
         ELSE /\ Commit(delete_album(Conn, id))
              /\ last' = Call("delete_album", id, TRUE, <<>>,
                              [before_albums |-> albums])
              /\ UNCHANGED <<fs, now>>

GetAlbums ==
    /\ Idle
    /\ \E db_opens \in BOOLEAN :
         IF ~db_opens THEN DatabaseError("get_albums", <<>>)
         ELSE /\ last' = Call("get_albums", <<>>, TRUE, get_albums(Conn), <<>>)
              /\ UNCHANGED <<foreign_keys, photos, albums, album_photos,
                             album_seq, fs, now>>

\* the loop of add_to_album over the first n paths: [conn, failed]
RECURSIVE AddFirst(_, _, _, _, _)
AddFirst(conn, album_id, photo_paths, n, clock) ==
    IF n = 0 THEN [conn |-> conn, failed |-> FALSE]
    ELSE LET st == AddFirst(conn, album_id, photo_paths, n - 1, clock)
         IN  IF st.failed THEN st
             ELSE IF add_photo_to_album_fails(st.conn, album_id, photo_paths[n])
             THEN [st EXCEPT !.failed = TRUE]
             ELSE [st EXCEPT !.conn = add_photo_to_album(@, album_id,
                                                         photo_paths[n], clock)]

add_to_album(album_id, photo_paths, db_opens) ==
    IF ~db_opens THEN DatabaseError("add_to_album", <<album_id, photo_paths>>)
    ELSE LET st == AddFirst(Conn, album_id, photo_paths, Len(photo_paths), now)
         IN  /\ Commit(st.conn)
             /\ last' = Call("add_to_album", <<album_id, photo_paths>>,
                             ~st.failed,
                             IF st.failed THEN "Failed to add to album"
                             ELSE "", <<>>)
             /\ UNCHANGED <<fs, now>>

AddToAlbum ==
    /\ Idle
    /\ \E album_id \in AlbumIds, photo_paths \in SeqsUpTo(KnownPaths, MaxBatch),
          db_opens \in BOOLEAN :
         add_to_album(album_id, photo_paths, db_opens)

RECURSIVE RemoveFirst(_, _, _, _)
RemoveFirst(conn, album_id, photo_paths, n) ==
    IF n = 0 THEN conn
    ELSE remove_photo_from_album(RemoveFirst(conn, album_id, photo_paths, n - 1),
                                 album_id, photo_paths[n])

remove_from_album(album_id, photo_paths, db_opens) ==
    IF ~db_opens
    THEN DatabaseError("remove_from_album", <<album_id, photo_paths>>)
    ELSE /\ Commit(RemoveFirst(Conn, album_id, photo_paths, Len(photo_paths)))
         /\ last' = Call("remove_from_album", <<album_id, photo_paths>>, TRUE,
                         <<>>, <<>>)
         /\ UNCHANGED <<fs, now>>

RemoveFromAlbum ==
    /\ Idle
    /\ \E album_id \in AlbumIds, photo_paths \in SeqsUpTo(KnownPaths, MaxBatch),
          db_opens \in BOOLEAN :
         remove_from_album(album_id, photo_paths, db_opens)

GetAlbumPhotos ==
    /\ Idle
    /\ \E album_id \in AlbumIds, db_opens \in BOOLEAN :
         IF ~db_opens THEN DatabaseError("get_album_photos", album_id)
         ELSE \E list \in get_album_photos(Conn, album_id) :
                /\ last' = Call("get_album_photos", album_id, TRUE, list, <<>>)
                /\ UNCHANGED <<foreign_keys, photos, albums, album_photos,
                               album_seq, fs, now>>

SetAlbumCover ==
    /\ Idle
    /\ \E album_id \in AlbumIds, photo_path \in KnownPaths, db_opens \in BOOLEAN :
         IF ~db_opens
         THEN DatabaseError("set_album_cover", <<album_id, photo_path>>)
         ELSE /\ Commit(set_album_cover(Conn, album_id, photo_path))
              /\ last' = Call("set_album_cover", <<album_id, photo_path>>, TRUE,
                              <<>>, <<>>)
              /\ UNCHANGED <<fs, now>>

\* the commands that call db::init_database and with it get_db_path;
\* upload_photos calls get_library_path as well
SetupCommands ==
    {"get_all_photos", "scan_directory", "upload_photos", "toggle_favorite",
     "create_album", "delete_album", "get_albums", "add_to_album",
     "remove_from_album", "get_album_photos", "set_album_cover",
     "delete_photos"}

\* get_db_path and get_library_path unwrap with expect(): when the data or
\* pictures directory is unknown or create_dir_all fails, the command
\* panics before it touches the store and returns no Result.  Whether the
\* process outlives the panic depends on the panic strategy of the build
\* and on the thread the runtime ran the command on.
SetupPanics ==
    /\ Idle
    /\ \E command \in SetupCommands, survives \in BOOLEAN :
         last' = Call("panic", command, FALSE,
                      "Failed to create Terra data directory",
                      [survives |-> survives])
    /\ UNCHANGED <<foreign_keys, photos, albums, album_photos, album_seq,
                   fs, now>>

\* the host takes the response; the next command can be invoked
Respond ==
    /\ ~Idle
    /\ last.op = "panic" => last.note.survives
    /\ last.op # "scanning"
    /\ last' = Call("idle", <<>>, TRUE, <<>>, <<>>)
    /\ UNCHANGED <<foreign_keys, photos, albums, album_photos, album_seq,
                   fs, now>>

(***************************************************************************)
(* scan_directory with its worker pool shown: step 1 collects the entries, *)
(* step 2 hands them to rayon (entries.par_iter().filter_map(..)), whose   *)
(* workers take the entries in any order and each run process_image on     *)
(* one, reading the clock when they run; collect() gathers what they       *)
(* return in the order of the entries.  While the scan runs last.op is     *)
(* "scanning", last.val[i] the Option the worker of entry i returned       *)
(* (None: not run yet) and last.note the entries and the starting time.    *)
(***************************************************************************)
BeginScan ==
    /\ Idle
    /\ \E dir_path \in ScanRoots :
         \E entries \in Orderings({p \in DOMAIN fs :
                                     IsMediaEntry(fs, dir_path, p)}) :
           last' = Call("scanning", <<dir_path, FALSE>>, TRUE,
                        [i \in 1..Len(entries) |-> None],
                        [entries |-> entries, started |-> now])
    /\ UNCHANGED <<foreign_keys, photos, albums, album_photos, album_seq,
                   fs, now>>

\* a worker runs process_image on an entry no worker has taken yet
Extract ==
    /\ last.op = "scanning"
    /\ \E i \in 1..Len(last.val) :
         /\ last.val[i] = None
         /\ LET path == last.note.entries[i]
            IN  last' = [last EXCEPT
                           !.val[i] = Some(process_image(path, fs[path], now))]
    /\ UNCHANGED <<foreign_keys, photos, albums, album_photos, album_seq,
                   fs, now>>

\* the clock moves while the workers run
Elapse ==
    /\ last.op = "scanning"
    /\ now < Epoch0 + MaxTime
    /\ now' = now + 1
    /\ UNCHANGED <<foreign_keys, photos, albums, album_photos, album_seq,
                   fs, last>>

\* a collector that leaves out the records whose image could not be read
Collected_skips_unreadable(results) ==
    LET Readable(opt) == opt[1].width # 0
        kept == SelectSeq(results, Readable)
    IN  [i \in 1..Len(kept) |-> kept[i][1]]

\* filter_map(..).collect(): the records of the workers that returned
\* Some, in the order of the entries
Collected(results) ==
    LET Returned(opt) == opt # None
        kept == SelectSeq(results, Returned)
    IN  [i \in 1..Len(kept) |-> kept[i][1]]

\* every worker has returned; save_to_db is false and Ok(photos) goes back
Collect ==
    /\ last.op = "scanning"
    /\ \A i \in 1..Len(last.val) : last.val[i] # None
    /\ last' = Call("scan_directory", last.args, TRUE, Collected(last.val),
                    last.note)
    /\ UNCHANGED <<foreign_keys, photos, albums, album_photos, album_seq,
                   fs, now>>

\* time passes between commands
Tick ==
    /\ Idle
    /\ now < Epoch0 + MaxTime
    /\ now' = now + 1
    /\ UNCHANGED <<foreign_keys, photos, albums, album_photos, album_seq,
                   fs, last>>

(***************************************************************************)
(* Specifications.  The commands are the same in each; a specification     *)
(* runs the commands of one part of the backend so that the state space    *)
(* stays within reach of the model checker.                                *)
(***************************************************************************)
\* the photo store: scanning in place, favourites, listing, deletion
Next ==
    \/ ScanDirectory
    \/ GetAllPhotos
    \/ ToggleFavorite
    \/ DeletePhotos
    \/ Tick
    \/ Respond

Spec == Init /\ [][Next]_vars

\* albums and their memberships over scanned photos, with favourites
NextAlbum ==
    \/ ScanDirectory
    \/ DeletePhotos
    \/ CreateAlbum
    \/ DeleteAlbum
    \/ GetAlbums
    \/ AddToAlbum
    \/ RemoveFromAlbum
    \/ GetAlbumPhotos
    \/ SetAlbumCover
    \/ ToggleFavorite
    \/ GetAllPhotos
    \/ Respond

SpecAlbum == Init /\ [][NextAlbum]_vars

\* commands under failures of the resource setup
NextSetup ==
    \/ ScanDirectory
    \/ GetAllPhotos
    \/ ToggleFavorite
    \/ CreateAlbum
    \/ GetAlbums
    \/ SetupPanics
    \/ Respond

SpecSetup == Init /\ [][NextSetup]_vars

\* a library that only grows: uploads of sources inside and outside it
NextLibrary ==
    \/ UploadFromAnywhere
    \/ GetAllPhotos
    \/ Respond

SpecLibrary == Init /\ [][NextLibrary]_vars

\* album membership over time: adds repeated at later instants
NextMember ==
    \/ ScanDirectory
    \/ CreateAlbum
    \/ AddToAlbum
    \/ GetAlbums
    \/ Tick
    \/ Respond

SpecMember == Init /\ [][NextMember]_vars

\* the managed library: uploads, rescans of the library, deletion
NextIngest ==
    \/ UploadPhotos
    \/ ScanDirectory
    \/ GetAllPhotos
    \/ DeletePhotos
    \/ Respond

SpecIngest == Init /\ [][NextIngest]_vars

(***************************************************************************)
(* The metadata extractor on its own: one file, drawn from DateNames x     *)
(* DateFiles, handed to process_image.                                     *)
(***************************************************************************)
ValidStamp == <<<<2021, 3, 5>>, <<10, 0, 0>>>>
OtherStamp == <<<<2019, 7, 1>>, <<8, 30, 0>>>>

DateEntries ==
    {ExifEntry("DateTimeOriginal", TRUE, ValidStamp),
     ExifEntry("DateTime", TRUE, Append(OtherStamp, <<>>)),
     ExifEntry("DateTimeOriginal", TRUE, <<<<0, 0, 0>>, <<0, 0, 0>>>>),
     ExifEntry("DateTimeOriginal", FALSE, ValidStamp),
     ExifEntry("Make", TRUE, ValidStamp)}

DateFiles ==
    {[exif |-> e, img |-> Some(<<4, 3>>), mtime |-> m] :
        e \in {None, Some(<<>>)} \cup {Some(<<x>>) : x \in DateEntries}
              \cup {Some(<<x, y>>) : x \in DateEntries, y \in DateEntries},
        m \in {[secs |-> 1615000000, nanos |-> 700000000],
               [secs |-> 0 - 5, nanos |-> 0]}}

DateNames ==
    {FileName(stem, Some("jpg")) :
        stem \in {<<Txt("a")>>,
                  <<DateTok(2017, 11, 26)>>,
                  <<Txt("IMG"), DateTok(2017, 11, 26), TimeTok(3, 8, 58)>>,
                  <<TimeTok(12, 34, 56), Txt("x"), DateTok(2017, 11, 26)>>,
                  <<TimeTok(99, 0, 1), Txt("x"), DateTok(2017, 11, 26)>>,
                  <<DateTok(1969, 12, 31)>>,
                  <<DateTok(2017, 2, 30)>>,
                  <<DateTok(2017, 13, 1), DateTok(2018, 1, 1)>>}}

InitDate ==
    /\ foreign_keys = FALSE
    /\ photos = {}
    /\ albums = {}
    /\ album_photos = {}
    /\ album_seq = 0
    /\ \E name \in DateNames, file \in DateFiles :
         fs = (PathOf(<<"in">>, name) :> file)
    /\ now = Epoch0
    /\ last = Call("idle", <<>>, TRUE, <<>>, <<>>)

ProcessImage ==
    /\ Idle
    /\ \E path \in DOMAIN fs :
         last' = Call("process_image", path, TRUE,
                      process_image(path, fs[path], now), <<>>)
    /\ UNCHANGED <<foreign_keys, photos, albums, album_photos, album_seq,
                   fs, now>>

NextDate ==
    \/ ProcessImage
    \/ Respond

SpecDate == InitDate /\ [][NextDate]_vars

(***************************************************************************)
(* The worker pool of the scanner, over the initial files and one file     *)
(* that offers no date at all.                                             *)
(***************************************************************************)
\* no EXIF, no date in the name, a modification time before the epoch
SrcOld == PathOf(<<"in">>, FileName(<<Txt("old")>>, Some("png")))

InitParallel ==
    /\ foreign_keys \in BOOLEAN
    /\ photos = {}
    /\ albums = {}
    /\ album_photos = {}
    /\ album_seq = 0
    /\ fs = (SrcOld :> [exif |-> None, img |-> None,
                        mtime |-> [secs |-> 0 - 5, nanos |-> 0]])
            @@ InitialFiles
    /\ now = Epoch0
    /\ last = Call("idle", <<>>, TRUE, <<>>, <<>>)

NextParallel ==
    \/ BeginScan
    \/ Extract
    \/ Elapse
    \/ Collect
    \/ Respond

SpecParallel == InitParallel /\ [][NextParallel]_vars

(***************************************************************************)
(* The scanner over directories that hold files of several kinds: any      *)
(* subset of ScanFiles is on disk at the start.                            *)
(***************************************************************************)
PlainFile == [exif |-> None, img |-> None, mtime |-> [secs |-> 1615000000, nanos |-> 0]]

ScanFiles ==
    {PathOf(<<"in">>, FileName(<<Txt("a")>>, Some("jpg"))),
     PathOf(<<"in">>, FileName(<<Txt("b")>>, Some("JPG"))),
     PathOf(<<"in", "sub">>, FileName(<<Txt("c")>>, Some("Png"))),
     PathOf(<<"in">>, FileName(<<Txt("d")>>, Some("MOV"))),
     PathOf(<<"in">>, FileName(<<Txt("e")>>, Some("txt"))),
     PathOf(<<"in", "sub">>, FileName(<<Txt("f")>>, Some("TXT"))),
     PathOf(<<"in">>, FileName(<<Txt("jpg")>>, None))}

InitScan ==
    /\ foreign_keys \in BOOLEAN
    /\ photos = {}
    /\ albums = {}
    /\ album_photos = {}
    /\ album_seq = 0
    /\ \E on_disk \in SUBSET ScanFiles : fs = [p \in on_disk |-> PlainFile]
    /\ now = Epoch0
    /\ last = Call("idle", <<>>, TRUE, <<>>, <<>>)

NextScan ==
    \/ ScanDirectory
    \/ Respond

SpecScan == InitScan /\ [][NextScan]_vars

(***************************************************************************)
(* The store's count of photos per year on its own: the photos table       *)
(* holds any subset of CountRows, get_photo_count_by_year is run on it.    *)
(***************************************************************************)
\* capture timestamps around the turns of the years 1970, 2022 and 2023
CountStamps ==
    <<0 - 1, 1614938400, 1640995199, 1640995200, 1672531199, 1672531200,
      1700000000>>

CountRows ==
    {LET path == PathOf(<<"in">>, FileName(<<Txt("p"), Num(i)>>, Some("jpg")))
     IN  [path |-> path, name |-> path.name, date_taken |-> CountStamps[i],
          width |-> 0, height |-> 0, source_type |-> "scan",
          created_at |-> Epoch0, is_favorite |-> 0] :
       i \in 1..Len(CountStamps)}

InitCount ==
    /\ foreign_keys \in BOOLEAN
    /\ photos \in SUBSET CountRows
    /\ albums = {}
    /\ album_photos = {}
    /\ album_seq = 0
    /\ fs = << >>
    /\ now = Epoch0
    /\ last = Call("idle", <<>>, TRUE, <<>>, <<>>)

CountByYear ==
    /\ Idle
    /\ last' = Call("get_photo_count_by_year", <<>>, TRUE,
                    get_photo_count_by_year(Conn), <<>>)
    /\ UNCHANGED <<foreign_keys, photos, albums, album_photos, album_seq,
                   fs, now>>

NextCount ==
    \/ CountByYear
    \/ Respond

SpecCount == InitCount /\ [][NextCount]_vars

(***************************************************************************)
(* Properties of the photo store (Spec).                                   *)
(***************************************************************************)
RowsAt(table, path) == {r \in table : r.path = path}

\* the photos a command hands back to its caller: the Vec of Ok, nothing
\* on Err (an Err carries only its message)
ReturnedPhotos(call) == IF call.ok THEN call.val ELSE <<>>

\* scan_directory ran to the persistence step or to its end (the database,
\* if asked for, could be opened)
ScanResponded ==
    /\ last.op = "scan_directory"
    /\ (last.ok \/ last.val = "Failed to insert photo")

\* a scan whose k-th insert failed, k = last.note.saved + 1
ScanFailedMidBatch ==
    /\ ScanResponded
    /\ ~last.ok
    /\ last.val = "Failed to insert photo"

\* the old row was written from a record identical to photo
SameRecord(old, photo) ==
    /\ old.path = photo.path
    /\ old.name = photo.name
    /\ old.date_taken = photo.date_taken
    /\ old.width = photo.width
    /\ old.height = photo.height
    /\ (old.is_favorite # 0) = photo.is_favorite

\* C2: the store never holds two rows with the same path, and a record
\* upserted a second time leaves exactly one row for its path, stamped
\* with the clock of the second call.
C2_UpsertIdempotent ==
    /\ \A r1 \in photos, r2 \in photos : r1.path = r2.path => r1 = r2
    /\ ScanResponded =>
         \A i \in 1..last.note.saved :
           LET photo == last.note.photos[i]
           IN  (\E old \in last.note.before : SameRecord(old, photo)) =>
                 /\ Cardinality(RowsAt(photos, photo.path)) = 1
                 /\ \A r \in RowsAt(photos, photo.path) :
                      r.created_at = now /\ SameRecord(r, photo)

\* a second upsert of an identical record, later than the first
C2_Witness ==
    /\ ScanResponded
    /\ \E i \in 1..last.note.saved :
         \E old \in last.note.before :
           /\ SameRecord(old, last.note.photos[i])
           /\ old.created_at < now

\* C5: when the upsert of the k-th record of a persisting scan fails, the
\* records before it are in the store as this call wrote them, the k-th
\* and later records are not upserted (their rows are as before the
\* call), and the call returns an error.
C5_ScanFailureMidBatch ==
    ScanFailedMidBatch =>
      LET k == last.note.saved + 1
          found == last.note.photos
          earlier == {found[j].path : j \in 1..(k - 1)}
      IN  /\ ~last.ok
          /\ k <= Len(found)
          /\ \A i \in 1..(k - 1) :
               RowsAt(photos, found[i].path)
                 = {PhotoRow(found[i], "scan", now)}
          /\ \A i \in k..Len(found) :
               found[i].path \notin earlier =>
                 RowsAt(photos, found[i].path)
                   = RowsAt(last.note.before, found[i].path)

\* one record committed before the failing one, which is left without row
C5_Witness ==
    /\ ScanFailedMidBatch
    /\ last.note.saved >= 1
    /\ RowsAt(photos, last.note.photos[last.note.saved + 1].path) = {}

\* C6 as stated: on a persistence failure the caller still receives the
\* extracted records together with the failure signal.
C6_ScanFailureReturnsRecords ==
    ScanFailedMidBatch => ReturnedPhotos(last) = last.note.photos

\* C6 as amended: on a persistence failure the caller receives only the
\* error message; the extracted records are not returned.
C6_ScanFailureReturnsOnlyError ==
    (ScanResponded /\ last.note.saved < Len(last.note.photos)
       /\ last.args[2]) =>
      /\ ~last.ok
      /\ last.val = "Failed to insert photo"
      /\ ReturnedPhotos(last) = <<>>

C6_Witness ==
    /\ ScanFailedMidBatch
    /\ Len(last.note.photos) >= 2
    /\ last.note.saved >= 1

\* the is_favorite values get_all_photos can show for path over table
ShownFavorite(table, path) ==
    UNION {{list[j].is_favorite :
               j \in {x \in 1..Len(list) : list[x].path = path}} :
           list \in OrderByDateTakenDesc(table)}

\* the command behind the response upserts, deletes or toggles path
Touches(call, path) ==
    \/ /\ call.op = "toggle_favorite"
       /\ call.args[1] = path
    \/ /\ call.op = "scan_directory"
       /\ (call.ok \/ call.val = "Failed to insert photo")
       /\ call.args[2]
       /\ \E i \in 1..Len(call.note.photos) : call.note.photos[i].path = path
    \/ /\ call.op = "delete_photos"
       /\ \E i \in 1..Len(call.args) : call.args[i] = path
    \/ call.op = "upload_photos"

\* C9: once toggle_favorite(path, v) has succeeded on a path that has a
\* row, get_all_photos shows is_favorite = v for it, and no step that does
\* not upsert, delete or toggle the path changes what get_all_photos shows.
C9_FavoriteRoundTrip ==
    [][/\ (last'.op = "toggle_favorite" /\ last'.ok
             /\ RowsAt(photos, last'.args[1]) # {}) =>
            ShownFavorite(photos', last'.args[1]) = {last'.args[2]}
       /\ \A r \in photos :
            ~Touches(last', r.path) =>
              ShownFavorite(photos', r.path) = ShownFavorite(photos, r.path)
      ]_vars

\* get_all_photos returns a record marked favourite
C9_Witness ==
    /\ last.op = "get_all_photos"
    /\ last.ok
    /\ \E i \in 1..Len(last.val) : last.val[i].is_favorite

\* C10: a persisting scan that re-upserts a path whose row had
\* is_favorite = true leaves that path listed with is_favorite = false.
C10_FavoriteLostOnRescan ==
    ScanResponded =>
      \A i \in 1..last.note.saved :
        \A old \in last.note.before :
          (old.path = last.note.photos[i].path /\ old.is_favorite # 0) =>
            ShownFavorite(photos, old.path) = {FALSE}

C10_Witness ==
    /\ ScanResponded
    /\ \E i \in 1..last.note.saved :
         \E old \in last.note.before :
           /\ old.path = last.note.photos[i].path
           /\ old.is_favorite # 0

\* the files that were on disk before the command and are gone after it
RemovedFiles == last.note.before_files \ DOMAIN fs

\* C20: delete_photos removes a file only when the row of its path has
\* been deleted by the call: every file it removed is at a listed path
\* that had a row before the call and has none after it, so a failed row
\* delete, or a listed path without a row, leaves the file where it is.
C20_FileFollowsRow ==
    (last.op = "delete_photos" /\ last.val # "Database error") =>
      \A p \in RemovedFiles :
        /\ \E i \in 1..Len(last.args) : last.args[i] = p
        /\ RowsAt(last.note.before, p) # {}
        /\ RowsAt(photos, p) = {}

(***************************************************************************)
(* Properties of the scanner (SpecScan).                                   *)
(***************************************************************************)
\* the spellings, among the extensions on disk, of a supported extension
SupportedSpellings == {"jpg", "JPG", "Png", "MOV"}

\* C13: a scan_directory(dir_path, ..) that returns Ok returns exactly one
\* record for every file under dir_path, at any depth, whose extension is
\* a supported one in any letter case, and no record for a file with
\* another extension or with none.
C13_ExtensionFilter ==
    (last.op = "scan_directory" /\ last.ok) =>
      LET media == {p \in DOMAIN fs :
                      /\ Under(last.args[1], p)
                      /\ p.name.ext # None
                      /\ p.name.ext[1] \in SupportedSpellings}
      IN  /\ \A p \in media :
               Cardinality({i \in 1..Len(last.val) : last.val[i].path = p}) = 1
          /\ \A i \in 1..Len(last.val) : last.val[i].path \in media

\* a scan that returned a file with an upper-case extension and passed
\* over a text file and a file without extension under the same root
C13_Witness ==
    /\ last.op = "scan_directory"
    /\ last.ok
    /\ \E i \in 1..Len(last.val) : last.val[i].path.name.ext = Some("JPG")
    /\ \E p \in DOMAIN fs :
         /\ Under(last.args[1], p)
         /\ p.name.ext = Some("txt")
    /\ \E p \in DOMAIN fs :
         /\ Under(last.args[1], p)
         /\ p.name.ext = None

(***************************************************************************)
(* Properties of the count per year (SpecCount).                           *)
(***************************************************************************)
\* first second of the calendar year y, UTC
YearStart(y) == DaysFromCivil(y, 1, 1) * 86400

\* the stored photos whose capture timestamp falls in the year y
TakenIn(y) ==
    {r \in photos :
        r.date_taken >= YearStart(y) /\ r.date_taken < YearStart(y + 1)}

CountYears == 1969..2024

RECURSIVE SumCounts(_, _)
SumCounts(counts, n) ==
    IF n = 0 THEN 0 ELSE counts[n][2] + SumCounts(counts, n - 1)

\* C15: get_photo_count_by_year returns one (year, count) entry for each
\* calendar year (UTC) in which a stored photo's date_taken falls and none
\* for another year, the count being the number of photos of that year;
\* the entries are in descending order of year and the counts sum to the
\* number of stored photos.
C15_CountsByYear ==
    last.op = "get_photo_count_by_year" =>
      LET counts == last.val
          EntriesOf(y) == {i \in 1..Len(counts) : counts[i][1] = ToString(y)}
      IN  /\ \A y \in CountYears :
               IF TakenIn(y) = {} THEN EntriesOf(y) = {}
               ELSE /\ Cardinality(EntriesOf(y)) = 1
                    /\ \A i \in EntriesOf(y) :
                         counts[i][2] = Cardinality(TakenIn(y))
          /\ \A i \in 1..Len(counts) : \E y \in CountYears : i \in EntriesOf(y)
          /\ \A i \in 1..Len(counts), j \in 1..Len(counts) :
               i < j => \E y \in CountYears, z \in CountYears :
                          /\ i \in EntriesOf(y)
                          /\ j \in EntriesOf(z)
                          /\ y > z
          /\ SumCounts(counts, Len(counts)) = Cardinality(photos)

\* photos taken in 2021, 2021 and 2023 counted
C15_Witness ==
    /\ last.op = "get_photo_count_by_year"
    /\ last.val = <<<<"2023", 1>>, <<"2021", 2>>>>

(***************************************************************************)
(* Properties of the resource setup (SpecSetup).                           *)
(***************************************************************************)
\* the command that has just run met a failure of the resource setup
SetupFailed ==
    \/ last.op = "panic"
    \/ /\ last.op \in SetupCommands
       /\ ~last.ok
       /\ last.val = "Database error"

\* C16: a command that meets a failure of the resource setup (the data or
\* library directory cannot be created, the database cannot be opened)
\* returns an error value with a message: it does not panic, and the
\* process goes on to serve later calls.
C16_SetupFailureIsError ==
    SetupFailed =>
      /\ last.op # "panic"
      /\ ~last.ok
      /\ last.val = "Database error"

(***************************************************************************)
(* Properties of albums (SpecAlbum).                                       *)
(***************************************************************************)
\* C1: after delete_album(id) has deleted an album no album_photos row has
\* album_id = id, and after delete_photos(paths) has returned Ok no
\* album_photos row has the path of a photo it deleted.
C1_AlbumCascade ==
    /\ (last.op = "delete_album" /\ last.ok
          /\ \E a \in last.note.before_albums : a.id = last.args) =>
         \A m \in album_photos : m.album_id # last.args
    /\ (last.op = "delete_photos" /\ last.ok) =>
         \A i \in 1..Len(last.args) :
           RowsAt(last.note.before, last.args[i]) # {} =>
             \A m \in album_photos : m.photo_path # last.args[i]

\* row differs from old in is_favorite at most
SameButFavorite(old, row) == [row EXCEPT !.is_favorite = old.is_favorite] = old

\* C11: a toggle_favorite(path, v) that returns Ok keeps the number of
\* photo rows, sets is_favorite = v in the row of path and changes no other
\* field of it, and leaves every other photo row, every album, every
\* membership and the files as they were; it fails only when the database
\* cannot be opened, so with no row at path it returns Ok and changes
\* nothing.
C11_FavoriteTargeted ==
    [][last'.op = "toggle_favorite" =>
         /\ ~last'.ok => (last'.val = "Database error" /\ photos' = photos)
         /\ last'.ok =>
              LET path == last'.args[1]
                  flag == IF last'.args[2] THEN 1 ELSE 0
              IN  /\ \A old \in photos :
                       \E row \in photos' :
                         /\ row.path = old.path
                         /\ SameButFavorite(old, row)
                         /\ old.path = path => row.is_favorite = flag
                         /\ old.path # path => row = old
                  /\ Cardinality(photos') = Cardinality(photos)
                  /\ RowsAt(photos, path) = {} => photos' = photos
         /\ albums' = albums
         /\ album_photos' = album_photos
         /\ album_seq' = album_seq
         /\ fs' = fs
      ]_vars

\* a toggle that set the flag of one row while another row, an album and
\* a membership were in the store
C11_Witness ==
    /\ last.op = "toggle_favorite"
    /\ last.ok
    /\ last.args[2]
    /\ \E r \in photos : r.path = last.args[1] /\ r.is_favorite = 1
    /\ \E r \in photos : r.path # last.args[1]
    /\ albums # {}
    /\ album_photos # {}

\* the album_photos rows of table for the pair (album_id, photo_path)
Membership(table, album_id, photo_path) ==
    {x \in table : x.album_id = album_id /\ x.photo_path = photo_path}

MemberCount(table, album_id) ==
    Cardinality({x \in table : x.album_id = album_id})

\* C12: an add_to_album(album_id, photo_paths) whose pairs are all in
\* album_photos already returns Ok (the database opening) and leaves
\* album_photos, and so the album's count, unchanged; after any add that
\* returns Ok each listed pair has exactly one row, and a pair that had a
\* row keeps it with its added_at.
C12_AddIdempotent ==
    [][last'.op = "add_to_album" =>
         LET album_id == last'.args[1]
             photo_paths == last'.args[2]
         IN  /\ (\A i \in 1..Len(photo_paths) :
                   Membership(album_photos, album_id, photo_paths[i]) # {}) =>
                  /\ last'.ok \/ last'.val = "Database error"
                  /\ album_photos' = album_photos
                  /\ MemberCount(album_photos', album_id)
                       = MemberCount(album_photos, album_id)
             /\ last'.ok =>
                  \A i \in 1..Len(photo_paths) :
                    LET had == Membership(album_photos, album_id,
                                          photo_paths[i])
                        has == Membership(album_photos', album_id,
                                          photo_paths[i])
                    IN  /\ Cardinality(has) = 1
                        /\ had # {} => has = had
      ]_vars

\* an add of a pair that has been in the album since an earlier instant
C12_Witness ==
    /\ last.op = "add_to_album"
    /\ last.ok
    /\ \E i \in 1..Len(last.args[2]) :
         \E x \in Membership(album_photos, last.args[1], last.args[2][i]) :
           x.added_at < now

\* list holds the record of every row of rows once and nothing else, the
\* later capture timestamps first
ListsOnceNewestFirst(list, rows) ==
    /\ Len(list) = Cardinality(rows)
    /\ \A r \in rows :
         Cardinality({i \in 1..Len(list) : list[i] = RowToPhoto(r)}) = 1
    /\ \A i \in 1..Len(list), j \in 1..Len(list) :
         i < j => list[i].date_taken >= list[j].date_taken

\* the photo rows that are members of the album
MemberRows(album_id) ==
    {r \in photos : Membership(album_photos, album_id, r.path) # {}}

\* C14: in every reachable state every list get_all_photos can return
\* holds each stored record exactly once in non-increasing order of
\* date_taken, and every list get_album_photos(album_id) can return holds
\* the stored records that are members of the album, each once, in the
\* same order; the lists the commands have returned are such lists.
C14_ListingOrder ==
    /\ \A list \in get_all_photos(Conn) : ListsOnceNewestFirst(list, photos)
    /\ \A album_id \in AlbumIds :
         \A list \in get_album_photos(Conn, album_id) :
           ListsOnceNewestFirst(list, MemberRows(album_id))
    /\ (last.op = "get_all_photos" /\ last.ok) =>
         ListsOnceNewestFirst(last.val, photos)
    /\ (last.op = "get_album_photos" /\ last.ok) =>
         ListsOnceNewestFirst(last.val, MemberRows(last.args))

\* get_album_photos returned two members taken at different instants
C14_Witness ==
    /\ last.op = "get_album_photos"
    /\ last.ok
    /\ Len(last.val) = 2
    /\ last.val[1].date_taken > last.val[2].date_taken
    /\ Cardinality(photos) >= 2

\* C17: a scan that re-upserts paths which have rows leaves the
\* album_photos rows as they were before the call.
C17_UpsertKeepsMemberships ==
    ScanResponded => album_photos = last.note.members

\* C23: in every reachable state every album_photos row names the id of
\* an albums row and the path of a photos row, and the count get_albums
\* reports for an album is the length of the list get_album_photos
\* returns for it.
C23_MembershipIntegrity ==
    /\ \A x \in album_photos :
         /\ \E a \in albums : a.id = x.album_id
         /\ RowsAt(photos, x.photo_path) # {}
    /\ \A a \in get_albums(Conn) :
         \A list \in get_album_photos(Conn, a.id) : a.count = Len(list)

(***************************************************************************)
(* Properties of the managed library (SpecIngest).                         *)
(***************************************************************************)
\* upload_photos ran its loop
UploadResponded == last.op = "upload_photos" /\ last.ok

NewFiles == DOMAIN fs \ last.note.before_files

\* stem_N.ext in the directory of path
Numbered(dir, name, n) ==
    PathOf(dir, FileName(Append(name.stem, Num(n)), name.ext))

\* C3: when every listed source exists and nothing fails, no source is
\* dropped: the i-th record returned is the copy of the i-th source, a new
\* file with a store row, named by the source's basename or by stem_N.ext
\* with the basename and every stem_M.ext, M < N, taken; the records have
\* distinct paths.
C3_CollisionHandling ==
    (/\ UploadResponded
     /\ \A i \in 1..Len(last.args) :
          /\ last.note.faults[i] = "none"
          /\ last.args[i] \in last.note.before_files) =>
      /\ Len(last.val) = Len(last.args)
      /\ \A i \in 1..Len(last.args) :
           LET source == last.args[i]
               dest == last.val[i].path
           IN  /\ dest \in NewFiles
               /\ RowsAt(photos, dest) # {}
               /\ \/ dest.name = source.name
                  \/ \E n \in 1..Cardinality(DOMAIN fs) :
                       /\ dest = Numbered(dest.dir, source.name, n)
                       /\ PathOf(dest.dir, source.name) \in DOMAIN fs
                       /\ \A m \in 1..(n - 1) :
                            Numbered(dest.dir, source.name, m) \in DOMAIN fs
      /\ \A i \in 1..Len(last.val), j \in 1..Len(last.val) :
           last.val[i].path = last.val[j].path => i = j

\* indices of the listed sources that exist and meet the given fault
Items(fault) ==
    {i \in 1..Len(last.args) :
        /\ last.args[i] \in last.note.before_files
        /\ last.note.faults[i] = fault}

WithExtension(items) == {i \in items : last.args[i].name.ext # None}

Unreported == {p \in NewFiles : \A j \in 1..Len(last.val) : last.val[j].path # p}

\* C7: upload_photos skips a source that is missing or fails at some step
\* and goes on with the rest.  Every record returned names a new file of
\* the library whose row is the record stamped "upload"; the records are
\* those of the sources that met no failure; a new file that is not
\* reported has no row, and such files are the copies whose upsert failed.
C7_UploadBestEffort ==
    UploadResponded =>
      /\ \A j \in 1..Len(last.val) :
           /\ last.val[j].path \in NewFiles
           /\ Under(LibraryRoot, last.val[j].path)
           /\ RowsAt(photos, last.val[j].path)
                = {PhotoRow(last.val[j], "upload", now)}
      /\ \A i \in 1..Len(last.val), j \in 1..Len(last.val) :
           last.val[i].path = last.val[j].path => i = j
      /\ \A p \in Unreported : RowsAt(photos, p) = {}
      /\ Cardinality(WithExtension(Items("none"))) <= Len(last.val)
      /\ Len(last.val) <= Cardinality(Items("none"))
      /\ Cardinality(WithExtension(Items("insert"))) <= Cardinality(Unreported)
      /\ Cardinality(Unreported) <= Cardinality(Items("insert"))

\* a copy whose upsert failed stays on disk, and a later source of the
\* same batch is ingested
C7_Witness ==
    /\ UploadResponded
    /\ Unreported # {}
    /\ \E i \in Items("insert"), j \in Items("none") : i < j
    /\ Len(last.val) >= 1

DeleteFailedOnFile ==
    /\ last.op = "delete_photos"
    /\ ~last.ok
    /\ last.val = "Failed to delete file"

\* C8 as stated: a failure to remove one file does not keep the rows of
\* the other listed paths from being deleted.
C8_DeleteBestEffort ==
    DeleteFailedOnFile =>
      \A i \in 1..Len(last.args) : RowsAt(photos, last.args[i]) = {}

\* C8 as amended: delete_photos takes the paths in order, deleting the row
\* and then removing the file if it exists.  When it returns Ok every
\* listed path has neither row nor file.  A failure to remove a file ends
\* the call with an error: the paths up to the failing one have lost their
\* rows, the failing file is still there, and the rows and files of the
\* paths after it are as they were.
C8_DeleteStopsAtFileError ==
    /\ (last.op = "delete_photos" /\ last.ok) =>
         \A i \in 1..Len(last.args) :
           /\ RowsAt(photos, last.args[i]) = {}
           /\ last.args[i] \notin DOMAIN fs
    /\ DeleteFailedOnFile =>
         \E k \in 1..Len(last.args) :
           /\ last.args[k] \in DOMAIN fs
           /\ \A i \in 1..k : RowsAt(photos, last.args[i]) = {}
           /\ \A i \in 1..(k - 1) :
                last.args[i] # last.args[k] => last.args[i] \notin DOMAIN fs
           /\ \A i \in (k + 1)..Len(last.args) :
                last.args[i] \notin {last.args[j] : j \in 1..k} =>
                  /\ RowsAt(photos, last.args[i])
                       = RowsAt(last.note.before, last.args[i])
                  /\ (last.args[i] \in DOMAIN fs)
                       = (last.args[i] \in last.note.before_files)

\* the removal of the first file failed and the second path kept its row
C8_Witness ==
    /\ DeleteFailedOnFile
    /\ Len(last.args) = 2
    /\ RowsAt(photos, last.args[1]) = {}
    /\ RowsAt(photos, last.args[2]) # {}

\* C21: an upload_photos call leaves every file that was on disk before
\* it, sources and library files alike, on disk with the content and the
\* modification time it had, also when a source lies in the managed
\* library or is listed twice.
C21_UploadKeepsFiles ==
    [][last'.op = "upload_photos" =>
         \A p \in DOMAIN fs : p \in DOMAIN fs' /\ fs'[p] = fs[p]
      ]_vars

\* a file of the managed library was uploaded again and copied under a
\* numbered name beside itself
C21_Witness ==
    /\ UploadResponded
    /\ \E i \in 1..Len(last.args), j \in 1..Len(last.val) :
         /\ Under(LibraryRoot, last.args[i])
         /\ last.args[i] \in last.note.before_files
         /\ last.val[j].path.dir = last.args[i].dir
         /\ last.val[j].path = Numbered(last.args[i].dir, last.args[i].name, 1)

(***************************************************************************)
(* Properties of the capture-date resolver (SpecDate).                     *)
(***************************************************************************)
DateTags == {"DateTimeOriginal", "DateTime"}

\* the instants named by the well-formed date tags of the file
EmbeddedInstants(file) ==
    IF file.exif = None THEN {}
    ELSE {parse_exif_datetime(e.value)[1] :
            e \in {file.exif[1][i] : i \in
                     {j \in 1..Len(file.exif[1]) :
                        /\ file.exif[1][j].tag \in DateTags
                        /\ file.exif[1][j].ascii
                        /\ parse_exif_datetime(file.exif[1][j].value) # None}}}

\* the date written in the file name: its first YYYY-MM-DD, when that is a
\* day of the calendar between 1970 and 2100
FilenameDay(name) ==
    LET di == FirstTok(name.stem, "date", 1)
    IN  IF di = 0 THEN None
        ELSE LET tok == name.stem[di]
             IN  IF /\ tok.a >= 1970 /\ tok.a <= 2100
                    /\ ParseNaiveDateTime(tok.a, tok.b, tok.c, 0, 0, 0) # None
                 THEN Some([year |-> tok.a, month |-> tok.b, day |-> tok.c])
                 ELSE None

\* C4: the timestamp process_image resolves is an embedded instant when
\* the file has a valid date tag; else an instant of the day written in
\* the file name when it carries a valid date; else the modification time
\* in whole seconds; else the current time.
C4_FallbackOrder ==
    last.op = "process_image" =>
      LET file == fs[last.args]
          name == last.args.name
          resolved == last.val.date_taken
      IN  IF EmbeddedInstants(file) # {}
          THEN resolved \in EmbeddedInstants(file)
          ELSE IF FilenameDay(name) # None
          THEN CivilFromTimestamp(resolved) = FilenameDay(name)[1]
          ELSE IF file.mtime.secs >= 0
          THEN resolved = file.mtime.secs
          ELSE resolved = now

\* the instants named by the well-formed ASCII entries of the file with
\* the given tag
TagInstants(file, tag) ==
    IF file.exif = None THEN {}
    ELSE LET entries == file.exif[1]
             good == {i \in 1..Len(entries) :
                        /\ entries[i].tag = tag
                        /\ entries[i].ascii
                        /\ parse_exif_datetime(entries[i].value) # None}
         IN  {parse_exif_datetime(entries[i].value)[1] : i \in good}

\* C18: when the metadata block holds a parseable DateTimeOriginal the
\* resolved timestamp is a DateTimeOriginal value, wherever the entry
\* stands in the block; a parseable DateTime is used only when there is no
\* parseable DateTimeOriginal.
C18_OriginalBeforeGeneric ==
    last.op = "process_image" =>
      LET file == fs[last.args]
          original == TagInstants(file, "DateTimeOriginal")
          generic == TagInstants(file, "DateTime")
      IN  /\ original # {} => last.val.date_taken \in original
          /\ (original = {} /\ generic # {}) =>
               last.val.date_taken \in generic

\* the time of day written right after the first date of the name: the
\* "_HHMMSS" token next to it when there is one and it is a time of day,
\* midnight otherwise
AdjacentTime(name) ==
    LET di == FirstTok(name.stem, "date", 1)
        next == IF di < Len(name.stem) THEN Some(name.stem[di + 1]) ELSE None
    IN  IF /\ next # None
           /\ next[1].t = "time"
           /\ next[1].a <= 23 /\ next[1].b <= 59 /\ next[1].c <= 59
        THEN <<next[1].a, next[1].b, next[1].c>>
        ELSE <<0, 0, 0>>

\* C19: for a file name that carries a valid date, parse_filename_date
\* yields that date at the HH:MM:SS that immediately follows it and at
\* midnight when none does; digits elsewhere in the name neither set the
\* time of day nor make the step yield nothing.  Without an embedded date
\* this is the timestamp process_image resolves.
C19_FilenameTime ==
    last.op = "process_image" =>
      LET name == last.args.name
          day == FilenameDay(name)
      IN  day # None =>
            LET hms == AdjacentTime(name)
                expected == ParseNaiveDateTime(day[1].year, day[1].month,
                                               day[1].day,
                                               hms[1], hms[2], hms[3])
            IN  /\ parse_filename_date(name) = expected
                /\ EmbeddedInstants(fs[last.args]) = {} =>
                     Some(last.val.date_taken) = expected

(***************************************************************************)
(* Properties of the worker pool (SpecParallel).                           *)
(***************************************************************************)
\* the record of the i-th entry when its worker runs at the instant the
\* scan started
AtStart(i) ==
    LET path == last.note.entries[i]
    IN  process_image(path, fs[path], last.note.started)

\* the file offers a date: an embedded one, one in its name, or a
\* modification time
HasDateSource(path) ==
    or_else(or_else(extract_exif_date(fs[path]),
                    parse_filename_date(path.name)),
            get_file_modified_time(fs[path])) # None

\* C22 as stated: the records scan_directory returns for a set of
\* candidate files do not depend on the scheduling of the workers: they
\* are the records of the schedule in which every worker runs at once.
C22_ScheduleIndependent ==
    last.op = "scan_directory" =>
      /\ last.ok
      /\ Len(last.val) = Len(last.note.entries)
      /\ \A i \in 1..Len(last.val) : last.val[i] = AtStart(i)

\* C22 as amended: scan_directory returns Ok with one record for every
\* candidate file, whatever could not be read of it; under every
\* scheduling of the workers the records are the same but for the
\* date_taken of a file that offers no date, which is the reading of the
\* clock at some instant of the scan.
C22_ScheduleIndependentButClock ==
    last.op = "scan_directory" =>
      /\ last.ok
      /\ Len(last.val) = Len(last.note.entries)
      /\ \A i \in 1..Len(last.val) :
           /\ [last.val[i] EXCEPT !.date_taken = AtStart(i).date_taken]
                = AtStart(i)
           /\ IF HasDateSource(last.note.entries[i])
              THEN last.val[i].date_taken = AtStart(i).date_taken
              ELSE last.val[i].date_taken \in last.note.started..now

\* a scan of several files in which the worker of the file without a
\* date ran after the clock had moved
C22_Witness ==
    /\ last.op = "scan_directory"
    /\ Len(last.val) >= 2
    /\ \E i \in 1..Len(last.val) :
         last.val[i].date_taken > AtStart(i).date_taken

====
